---- MODULE Spec2Model ----
(***************************************************************************)
(* Model of src/main.py: the SKU helpers (first_letters_of_words,          *)
(* first_n_letters, build_sku) and the two request handlers that use the   *)
(* database (create_data, generate_sku).                                   *)
(*                                                                         *)
(* A Python str is a sequence of characters; a character is a one-token    *)
(* TLA+ string.  The token "sharp_s" stands for U+00DF, the one character  *)
(* of the alphabet whose str.upper() is two characters ("SS").             *)
(* An Optional value (None or a str) is a record [isNone, str].            *)
(***************************************************************************)
EXTENDS Integers, Sequences, FiniteSets, TLC

VARIABLES
    call,            \* the last direct call of a helper: function, arguments, outcome
    product_types,   \* table ProductType: rows [id, name, user_id] in insertion order
    collections,     \* table Collection
    colors,          \* table Color
    sku_records,     \* table SKURecord: rows [id, sku, product_name, user_id]
    response         \* what the last request answered

vars == <<call, product_types, collections, colors, sku_records, response>>

(***************************************************************************)
(* Bounds of the exploration.                                              *)
(***************************************************************************)
MaxLabelLen == 3     \* longest label handed to a helper on its own
MaxTotalLen == 4     \* total length of the four labels handed to build_sku
MaxSizeLen  == 2     \* longest size string
MaxWords    == 2     \* largest num_words
MaxLetters  == 2     \* largest letters_each
MaxN        == 3     \* largest n of first_n_letters

(***************************************************************************)
(* Characters and strings.                                                 *)
(***************************************************************************)
PAD == "_"

Alphabet == {"a", "B", " ", "sharp_s"}

SizeChars == {"3", "x"}

LowerCase == <<"a","b","c","d","e","f","g","h","i","j","k","l","m",
               "n","o","p","q","r","s","t","u","v","w","x","y","z">>

UpperCase == <<"A","B","C","D","E","F","G","H","I","J","K","L","M",
               "N","O","P","Q","R","S","T","U","V","W","X","Y","Z">>

\* the characters of the labels build_sku is called with
SkuAlphabet == {"a", " ", "sharp_s"}

Str(n) == [1..n -> Alphabet]

Strings(max) == UNION {Str(n) : n \in 0..max}

NoneValue == [isNone |-> TRUE, str |-> <<>>]

Some(s) == [isNone |-> FALSE, str |-> s]

\* str.isspace() of one character
isspace(c) == c \in {" ", "\t", "\n"}

\* str.upper() of one character: a sequence, since the upper case of a
\* character may be longer than the character
upper_char(c) ==
    IF c = "sharp_s" THEN <<"S", "S">>
    ELSE IF \E i \in 1..Len(LowerCase) : LowerCase[i] = c
         THEN <<UpperCase[CHOOSE i \in 1..Len(LowerCase) : LowerCase[i] = c]>>
         ELSE <<c>>

RECURSIVE upper(_)
upper(s) == IF s = <<>> THEN <<>> ELSE upper_char(Head(s)) \o upper(Tail(s))

RECURSIVE lstrip(_)
lstrip(s) == IF s # <<>> /\ isspace(Head(s)) THEN lstrip(Tail(s)) ELSE s

RECURSIVE rstrip(_)
rstrip(s) ==
    IF s # <<>> /\ isspace(s[Len(s)]) THEN rstrip(SubSeq(s, 1, Len(s) - 1)) ELSE s

strip(s) == rstrip(lstrip(s))

\* the word that starts s, where s starts with a character that is no space
RECURSIVE first_word(_)
first_word(s) ==
    IF s = <<>> \/ isspace(Head(s)) THEN <<>>
    ELSE <<Head(s)>> \o first_word(Tail(s))

\* str.split() without a separator: the maximal runs of characters that
\* are no space, in order; never an empty word
RECURSIVE split(_)
split(s) ==
    LET t == lstrip(s) IN
    IF t = <<>> THEN <<>>
    ELSE LET w == first_word(t) IN <<w>> \o split(SubSeq(t, Len(w) + 1, Len(t)))

\* c * n
RECURSIVE repeat(_, _)
repeat(c, n) == IF n <= 0 THEN <<>> ELSE <<c>> \o repeat(c, n - 1)

\* s.ljust(n, c)
ljust(s, n, c) == IF Len(s) >= n THEN s ELSE s \o repeat(c, n - Len(s))

\* s[:n]
prefix(s, n) == SubSeq(s, 1, IF n < Len(s) THEN n ELSE Len(s))

RECURSIVE join(_)
join(parts) == IF parts = <<>> THEN <<>> ELSE Head(parts) \o join(Tail(parts))

(***************************************************************************)
(* The outcome of a call: a returned value, or a raised exception.         *)
(***************************************************************************)
Return(v) == [raised |-> "", value |-> v]

Raise(e) == [raised |-> e, value |-> <<>>]

(***************************************************************************)
(* The SKU helpers.                                                        *)
(***************************************************************************)
\* one group of first_letters_of_words' loop: the body of `for i in range(num_words)`
word_group(parts, i, letters_each) ==
    IF i < Len(parts)
    THEN ljust(upper(prefix(parts[i + 1], letters_each)), letters_each, PAD)
    ELSE repeat(PAD, letters_each)

first_letters_of_words(s, num_words, letters_each) ==
    IF s = <<>>
    THEN join([i \in 1..num_words |-> repeat(PAD, letters_each)])
    ELSE LET parts == split(strip(s)) IN
         join([i \in 1..num_words |-> word_group(parts, i - 1, letters_each)])

\* the upper case taken after the cut, as first_letters_of_words takes it
first_n_letters_cut_first(s, n) ==
    IF s = <<>> THEN repeat(PAD, n)
    ELSE LET out == upper(prefix(strip(s), n))
         IN IF Len(out) < n THEN ljust(out, n, PAD) ELSE out

first_n_letters(s, n) ==
    IF s = <<>> THEN repeat(PAD, n)
    ELSE LET u   == upper(strip(s))
             out == prefix(u, n)
         IN IF Len(out) < n THEN ljust(out, n, PAD) ELSE out

\* the width build_sku forces its body to
BODY_WIDTH == 9

\* str(size) with no [0]
size_char_whole(size) == IF ~size.isNone THEN Return(size.str) ELSE Return(<<PAD>>)

\* str(size)[0] if size is not None else '_'
size_char(size) ==
    IF ~size.isNone
    THEN IF size.str = <<>> THEN Raise("IndexError") ELSE Return(<<Head(size.str)>>)
    ELSE Return(<<PAD>>)

sku_body(product_type, collection, product_name, color) ==
    LET pt    == first_letters_of_words(product_type, 2, 1)
        coll  == first_letters_of_words(collection, 2, 1)
        pname == first_n_letters(product_name, 3)
        col   == first_letters_of_words(color, 2, 1)
        body  == pt \o coll \o pname \o col
    IN IF Len(body) < BODY_WIDTH THEN ljust(body, BODY_WIDTH, PAD)
       ELSE IF Len(body) > BODY_WIDTH THEN prefix(body, BODY_WIDTH)
       ELSE body

build_sku(product_type, collection, product_name, color, size) ==
    LET sc == size_char(size) IN
    IF sc.raised # "" THEN sc
    ELSE Return(sku_body(product_type, collection, product_name, color) \o sc.value)

(***************************************************************************)
(* Direct calls of the helpers, on every input within the bounds.          *)
(***************************************************************************)
NoCall == [fn |-> "none", labels |-> <<>>, nums |-> <<>>, size |-> NoneValue,
           result |-> Return(<<>>)]

Sizes == {NoneValue} \cup {Some(s) : s \in UNION {[1..n -> SizeChars] : n \in 0..MaxSizeLen}}

Min(a, b) == IF a < b THEN a ELSE b

\* the inputs of the examples the documentation of build_sku's layout gives
ExampleCalls ==
    { <<<<"S","h","i","r","t">>, <<"S","u","m","m","e","r">>, <<"P","o","l","o">>,
        <<"B","l","u","e">>, Some(<<"3">>)>>,
      << <<>>, <<>>, <<"W","i","d","g","e","t">>, <<>>, Some(<<"2">>)>> }

CallFirstLettersOfWords ==
    /\ call = NoCall
    /\ \E s \in Strings(MaxLabelLen), num_words \in 1..MaxWords, letters_each \in 1..MaxLetters :
        call' = [fn |-> "first_letters_of_words", labels |-> <<s>>,
                 nums |-> <<num_words, letters_each>>, size |-> NoneValue,
                 result |-> Return(first_letters_of_words(s, num_words, letters_each))]
    /\ UNCHANGED <<product_types, collections, colors, sku_records, response>>

CallFirstNLetters ==
    /\ call = NoCall
    /\ \E s \in Strings(MaxLabelLen), n \in 1..MaxN :
        call' = [fn |-> "first_n_letters", labels |-> <<s>>, nums |-> <<n>>,
                 size |-> NoneValue, result |-> Return(first_n_letters(s, n))]
    /\ UNCHANGED <<product_types, collections, colors, sku_records, response>>

CallBuildSku ==
    /\ call = NoCall
    /\ \E n1 \in 0..Min(MaxLabelLen, MaxTotalLen) :
       \E n2 \in 0..Min(MaxLabelLen, MaxTotalLen - n1) :
       \E n3 \in 0..Min(MaxLabelLen, MaxTotalLen - n1 - n2) :
       \E n4 \in 0..Min(MaxLabelLen, MaxTotalLen - n1 - n2 - n3) :
       \E pt \in [1..n1 -> SkuAlphabet], coll \in [1..n2 -> SkuAlphabet],
          pname \in [1..n3 -> SkuAlphabet], col \in [1..n4 -> SkuAlphabet], size \in Sizes :
        call' = [fn |-> "build_sku", labels |-> <<pt, coll, pname, col>>, nums |-> <<>>,
                 size |-> size, result |-> build_sku(pt, coll, pname, col, size)]
    /\ UNCHANGED <<product_types, collections, colors, sku_records, response>>

CallExample ==
    /\ call = NoCall
    /\ \E e \in ExampleCalls :
        call' = [fn |-> "build_sku", labels |-> <<e[1], e[2], e[3], e[4]>>, nums |-> <<>>,
                 size |-> e[5], result |-> build_sku(e[1], e[2], e[3], e[4], e[5])]
    /\ UNCHANGED <<product_types, collections, colors, sku_records, response>>

NoResponse ==
    [endpoint |-> "none", method |-> "none", user |-> 0, status |-> "none",
     flash |-> "none", sku |-> <<>>, built |-> FALSE,
     product_types |-> <<>>, collections |-> <<>>, colors |-> <<>>, sku_records |-> <<>>]

InitDb ==
    /\ product_types = <<>>
    /\ collections = <<>>
    /\ colors = <<>>
    /\ sku_records = <<>>
    /\ response = NoResponse

\* a helper is called once, from the state before any call
InitSku == call = NoCall /\ InitDb

NextSku ==
    \/ CallFirstLettersOfWords
    \/ CallFirstNLetters
    \/ CallBuildSku
    \/ CallExample

SpecSku == InitSku /\ [][NextSku]_vars

(***************************************************************************)
(* The database.  A table is the sequence of its rows in insertion order.  *)
(***************************************************************************)
Users == {1, 2}

RECURSIVE max_id(_)
max_id(table) ==
    IF table = <<>> THEN 0
    ELSE LET m == max_id(Tail(table)) IN IF Head(table).id > m THEN Head(table).id ELSE m

\* the integer primary key the database gives the next row of a table
next_id(table) == max_id(table) + 1

\* Model.query.all(), the filter forgotten
filter_by_user_all(table, uid) == table

\* Model.query.filter_by(user_id=uid).all()
filter_by_user(table, uid) == SelectSeq(table, LAMBDA r : r.user_id = uid)

\* Model.query.filter_by(id=id, user_id=uid).first(): a sequence of at most one row
filter_by_id_user(table, id, uid) ==
    LET rows == SelectSeq(table, LAMBDA r : r.id = id /\ r.user_id = uid) IN
    IF rows = <<>> THEN <<>> ELSE <<Head(rows)>>

\* the row of the greatest id first: insertion of each row into the sorted rest
RECURSIVE insert_desc(_, _)
insert_desc(r, sorted) ==
    IF sorted = <<>> \/ r.id > Head(sorted).id THEN <<r>> \o sorted
    ELSE <<Head(sorted)>> \o insert_desc(r, Tail(sorted))

RECURSIVE insert_asc(_, _)
insert_asc(r, sorted) ==
    IF sorted = <<>> \/ r.id < Head(sorted).id THEN <<r>> \o sorted
    ELSE <<Head(sorted)>> \o insert_asc(r, Tail(sorted))

\* .order_by(SKURecord.id), the .desc() forgotten
RECURSIVE order_by_id_asc(_)
order_by_id_asc(rows) ==
    IF rows = <<>> THEN <<>> ELSE insert_asc(Head(rows), order_by_id_asc(Tail(rows)))

\* .order_by(SKURecord.id.desc())
RECURSIVE order_by_id_desc(_)
order_by_id_desc(rows) ==
    IF rows = <<>> THEN <<>> ELSE insert_desc(Head(rows), order_by_id_desc(Tail(rows)))

\* .limit(n)
limit(rows, n) == prefix(rows, n)

RECENT_LIMIT == 10

\* SKURecord.query.filter_by(user_id=uid).order_by(SKURecord.id.desc()).limit(10).all()
recent_sku_records(table, uid) ==
    limit(order_by_id_desc(filter_by_user(table, uid)), RECENT_LIMIT)

(***************************************************************************)
(* Request forms.  A field of a form is None (absent) or a str.            *)
(***************************************************************************)
Digits == <<"0","1","2","3","4","5","6","7","8","9">>

is_digit(c) == \E d \in 1..Len(Digits) : Digits[d] = c

digit_value(c) == (CHOOSE d \in 1..Len(Digits) : Digits[d] = c) - 1

RECURSIVE digits_value(_)
digits_value(s) ==
    IF s = <<>> THEN 0
    ELSE 10 * digits_value(SubSeq(s, 1, Len(s) - 1)) + digit_value(s[Len(s)])

\* int(s) of a str of decimal digits and other characters that are no sign,
\* space or underscore: the number, or ValueError
int_of(s) ==
    IF s # <<>> /\ \A k \in 1..Len(s) : is_digit(s[k])
    THEN Return(digits_value(s))
    ELSE Raise("ValueError")

\* request.form.get(name, '')
get_or_empty(field) == IF field.isNone THEN <<>> ELSE field.str

\* generate_sku's resolution of one submitted id to the name of a row of the
\* current user: '' when the id is absent or empty, is no integer, or names no
\* row of the user
resolve_name(table, id_field, uid) ==
    IF id_field.isNone \/ id_field.str = <<>> THEN <<>>
    ELSE LET n == int_of(id_field.str) IN
         IF n.raised # "" THEN <<>>
         ELSE LET row == filter_by_id_user(table, n.value, uid) IN
              IF row = <<>> THEN <<>> ELSE row[1].name

Answer(endpoint, method, uid, status, flash) ==
    [endpoint |-> endpoint, method |-> method, user |-> uid, status |-> status,
     flash |-> flash, sku |-> <<>>, built |-> FALSE,
     product_types |-> <<>>, collections |-> <<>>, colors |-> <<>>, sku_records |-> <<>>]

(***************************************************************************)
(* The request handlers, each for the logged-in user uid.                  *)
(***************************************************************************)
\* request.form.get('value', ''), the .strip() forgotten
form_value_unstripped(value_field) == get_or_empty(value_field)

\* request.form.get('value', '').strip()
form_value(value_field) == strip(get_or_empty(value_field))

\* request.form.get('product_name','').strip()
form_product_name(form) == strip(get_or_empty(form.product_name))

\* a store that keeps one record for each code of a user
add_sku_record_once(table, sku, product_name_text, uid) ==
    IF \E k \in 1..Len(table) : table[k].sku = sku /\ table[k].user_id = uid
    THEN table
    ELSE Append(table, [id |-> Len(table) + 1, sku |-> sku,
                        product_name |-> product_name_text, user_id |-> uid])

\* db.session.add(SKURecord(sku=sku, product_name=..., user_id=...)); db.session.commit()
add_sku_record(table, sku, product_name_text, uid) ==
    Append(table, [id |-> next_id(table), sku |-> sku,
                   product_name |-> product_name_text, user_id |-> uid])

\* POST /create-data
create_data_post(uid, what, value_field) ==
    LET value == form_value(value_field) IN
    /\ IF value = <<>>
       THEN /\ response' = Answer("create_data", "POST", uid, "redirect", "Please enter a value.")
            /\ UNCHANGED <<product_types, collections, colors>>
       ELSE IF what = "product_type"
       THEN /\ product_types' = Append(product_types,
                    [id |-> next_id(product_types), name |-> value, user_id |-> uid])
            /\ response' = Answer("create_data", "POST", uid, "redirect", "added")
            /\ UNCHANGED <<collections, colors>>
       ELSE IF what = "collection"
       THEN /\ collections' = Append(collections,
                    [id |-> next_id(collections), name |-> value, user_id |-> uid])
            /\ response' = Answer("create_data", "POST", uid, "redirect", "added")
            /\ UNCHANGED <<product_types, colors>>
       ELSE IF what = "color"
       THEN /\ colors' = Append(colors,
                    [id |-> next_id(colors), name |-> value, user_id |-> uid])
            /\ response' = Answer("create_data", "POST", uid, "redirect", "added")
            /\ UNCHANGED <<product_types, collections>>
       ELSE /\ response' = Answer("create_data", "POST", uid, "redirect", "Unknown type")
            /\ UNCHANGED <<product_types, collections, colors>>
    /\ UNCHANGED <<call, sku_records>>

\* GET /create-data
create_data_get(uid) ==
    /\ response' = [Answer("create_data", "GET", uid, "page", "none") EXCEPT
                        !.product_types = filter_by_user(product_types, uid),
                        !.collections = filter_by_user(collections, uid),
                        !.colors = filter_by_user(colors, uid),
                        !.sku_records = recent_sku_records(sku_records, uid)]
    /\ UNCHANGED <<call, product_types, collections, colors, sku_records>>

\* GET /generate-sku
generate_sku_get(uid) ==
    /\ response' = [Answer("generate_sku", "GET", uid, "page", "none") EXCEPT
                        !.product_types = filter_by_user(product_types, uid),
                        !.collections = filter_by_user(collections, uid),
                        !.colors = filter_by_user(colors, uid)]
    /\ UNCHANGED <<call, product_types, collections, colors, sku_records>>

\* POST /generate-sku
generate_sku_post(uid, form) ==
    /\ \E product_name_text \in {form_product_name(form)} :
        IF product_name_text = <<>>
        THEN /\ response' = Answer("generate_sku", "POST", uid, "redirect",
                                   "Please enter Product Name (type it).")
             /\ UNCHANGED sku_records
        ELSE \E ptype_text \in {resolve_name(product_types, form.product_type, uid)},
                coll_text \in {resolve_name(collections, form.collection, uid)},
                color_text \in {resolve_name(colors, form.color, uid)} :
             \E sku \in {build_sku(ptype_text, coll_text, product_name_text, color_text,
                                   form.size)} :
                IF sku.raised # ""
                THEN \* the exception leaves the handler: no row is added, the answer is an error
                     /\ response' = [Answer("generate_sku", "POST", uid, "error", sku.raised)
                                        EXCEPT !.built = TRUE]
                     /\ UNCHANGED sku_records
                ELSE /\ sku_records' = add_sku_record(sku_records, sku.value,
                                                      product_name_text, uid)
                     /\ response' = [Answer("generate_sku", "POST", uid, "redirect",
                                            "SKU generated")
                                        EXCEPT !.sku = sku.value, !.built = TRUE]
    /\ UNCHANGED <<call, product_types, collections, colors>>

(***************************************************************************)
(* The requests explored.                                                  *)
(***************************************************************************)
MaxRows    == 2      \* rows of the four tables together
MaxHistory == 12     \* rows of SKURecord where only the user of a request varies

WhatValues == {"product_type", "collection", "color", "size"}

ValueFields == {NoneValue, Some(<<" ">>), Some(<<"a", " ">>), Some(<<"sharp_s", " ", "B">>)}

IdFields == {NoneValue, Some(<<"x">>), Some(<<"1">>)}

SizeFields == {NoneValue, Some(<<>>), Some(<<"3", "x">>)}

\* forms whose product name passes the validation
NamedForms == [product_name : {Some(<<" ", "a", "B">>)}, product_type : IdFields,
               collection : IdFields, color : IdFields, size : SizeFields]

\* forms whose product name is absent or blank
OtherForms ==
    [product_name : {NoneValue, Some(<<" ">>)}, product_type : {NoneValue, Some(<<"1">>)},
     collection : {NoneValue}, color : {NoneValue}, size : {NoneValue, Some(<<"3", "x">>)}]

\* forms whose ids are empty strings, as a select with no choice made sends them
EmptyIdForms ==
    [product_name : {Some(<<"a", "B">>)}, product_type : {Some(<<>>)},
     collection : {Some(<<>>)}, color : {Some(<<>>), Some(<<"1">>)}, size : {Some(<<"3">>)}]

Forms == NamedForms \cup OtherForms \cup EmptyIdForms

\* the one form of the long histories
PlainForm == [product_name |-> Some(<<"a", "B">>), product_type |-> NoneValue,
              collection |-> NoneValue, color |-> NoneValue, size |-> Some(<<"3">>)]

Rows == Len(product_types) + Len(collections) + Len(colors) + Len(sku_records)

CreateDataPost ==
    /\ Rows < MaxRows
    /\ \E uid \in Users, what \in WhatValues, value \in ValueFields :
            create_data_post(uid, what, value)

CreateDataGet == \E uid \in Users : create_data_get(uid)

GenerateSkuGet == \E uid \in Users : generate_sku_get(uid)

GenerateSkuPost ==
    /\ Rows < MaxRows
    /\ \E uid \in Users, form \in Forms : generate_sku_post(uid, form)

GenerateSkuPostPlain ==
    /\ Len(sku_records) < MaxHistory
    /\ \E uid \in Users : generate_sku_post(uid, PlainForm)

Init == call = NoCall /\ InitDb

Next ==
    \/ CreateDataPost
    \/ CreateDataGet
    \/ GenerateSkuGet
    \/ GenerateSkuPost

Spec == Init /\ [][Next]_vars

\* long histories of SKU records: the requests of Next with no vocabulary and one form
NextHistory ==
    \/ CreateDataGet
    \/ GenerateSkuPostPlain

SpecHistory == Init /\ [][NextHistory]_vars

(***************************************************************************)
(* Properties of the helpers.                                              *)
(***************************************************************************)
SKU_LENGTH == 10

BuildSkuCalled == call.fn = "build_sku"

BuildSkuReturned == BuildSkuCalled /\ call.result.raised = ""

\* C1: for every input, the labels any strings and the size any string (the
\* empty one too) or None, build_sku returns a value without raising, and
\* the value has exactly 10 characters.
C1_BuildSkuTotalWidth10 ==
    BuildSkuCalled =>
        /\ call.result.raised = ""
        /\ Len(call.result.value) = SKU_LENGTH

\* C2: the first 9 characters of the SKU build_sku returns are
\* first_letters_of_words(product_type, 2, 1), first_letters_of_words(collection, 2, 1),
\* first_n_letters(product_name, 3) and first_letters_of_words(color, 2, 1) in
\* this order, at the positions 1-2, 3-4, 5-7 and 8-9.
C2_BodyLayout ==
    BuildSkuReturned =>
        LET sku == call.result.value
            l   == call.labels
        IN /\ Len(sku) >= 9
           /\ SubSeq(sku, 1, 2) = first_letters_of_words(l[1], 2, 1)
           /\ SubSeq(sku, 3, 4) = first_letters_of_words(l[2], 2, 1)
           /\ SubSeq(sku, 5, 7) = first_n_letters(l[3], 3)
           /\ SubSeq(sku, 8, 9) = first_letters_of_words(l[4], 2, 1)

\* the two examples of C2, which the code meets
C2_Examples ==
    /\ (BuildSkuCalled /\ call.labels[3] = <<"P","o","l","o">>)
         => call.result = Return(<<"S","_","S","_","P","O","L","B","_","3">>)
    /\ (BuildSkuCalled /\ call.labels[3] = <<"W","i","d","g","e","t">>)
         => call.result = Return(<<"_","_","_","_","W","I","D","_","_","2">>)

\* the group a word (or its absence) gives, as C3 describes it
ExpectedGroup(words, i, letters_each) ==
    [k \in 1..letters_each |->
        IF i <= Len(words) /\ k <= Len(upper(prefix(words[i], letters_each)))
        THEN upper(prefix(words[i], letters_each))[k]
        ELSE PAD]

\* C3: first_letters_of_words returns exactly num_words * letters_each
\* characters; group i is the first letters_each characters of word i of
\* the trimmed label, in upper case and padded with '_' to letters_each
\* characters, or letters_each '_' where the label has no word i.
C3_FirstLettersOfWordsWidth ==
    call.fn = "first_letters_of_words" =>
        LET out   == call.result.value
            nw    == call.nums[1]
            le    == call.nums[2]
            words == split(strip(call.labels[1]))
        IN /\ Len(out) = nw * le
           /\ \A i \in 1..nw :
                SubSeq(out, (i - 1) * le + 1, i * le) = ExpectedGroup(words, i, le)

\* C4: first_n_letters returns exactly n characters: n '_' for a label that
\* is empty once trimmed, else the first n characters of the trimmed label
\* in upper case, padded on the right with '_' to n characters.
C4_FirstNLetters ==
    call.fn = "first_n_letters" =>
        LET out == call.result.value
            n   == call.nums[1]
            u   == upper(strip(call.labels[1]))
        IN /\ Len(out) = n
           /\ \A k \in 1..n : out[k] = IF k <= Len(u) THEN u[k] ELSE PAD

\* the label " <sharp s>" with n = 3: trimmed, "SS" in upper case, one pad
C4_Witness ==
    /\ call.fn = "first_n_letters"
    /\ call.labels = << <<" ", "sharp_s">> >>
    /\ call.nums = <<3>>
    /\ call.result.value = <<"S", "S", "_">>

\* C5: the SKU build_sku returns ends in the first character of the size,
\* or in '_' for the size None; the character follows the 9 characters of
\* the body with no separator, and the rest of the size does not appear:
\* the SKU is the one of the size cut to its first character.
C5_SizeCharacter ==
    BuildSkuReturned =>
        LET sku == call.result.value
            l   == call.labels
        IN /\ Len(sku) = SKU_LENGTH
           /\ sku[SKU_LENGTH] = (IF call.size.isNone THEN PAD ELSE call.size.str[1])
           /\ SubSeq(sku, 1, BODY_WIDTH) = sku_body(l[1], l[2], l[3], l[4])
           /\ ~call.size.isNone =>
                call.result = build_sku(l[1], l[2], l[3], l[4], Some(<<call.size.str[1]>>))

\* a size of two characters, of which the SKU shows the first
C5_Witness ==
    /\ BuildSkuReturned
    /\ call.size = Some(<<"3", "x">>)
    /\ call.labels[3] = <<"a", "a">>
    /\ call.result.value[SKU_LENGTH] = "3"

(***************************************************************************)
(* Properties of the request handlers.                                     *)
(***************************************************************************)
Tables == <<product_types, collections, colors, sku_records>>

\* the step is a generation request that was answered 'SKU generated'
GenerationSucceeded ==
    /\ response'.endpoint = "generate_sku"
    /\ response'.method = "POST"
    /\ response'.flash = "SKU generated"

\* C6: every successful generation request appends exactly one SKU record
\* with a fresh identifier and leaves the stored records as they were; no
\* other request changes the SKU records; no two records share an
\* identifier, whatever their codes (nothing is deduplicated, overwritten
\* or deleted).
C6_AppendOnly ==
    /\ [](\A i, j \in 1..Len(sku_records) : i # j => sku_records[i].id # sku_records[j].id)
    /\ [][ /\ GenerationSucceeded =>
                /\ Len(sku_records') = Len(sku_records) + 1
                /\ SubSeq(sku_records', 1, Len(sku_records)) = sku_records
                /\ \A i \in 1..Len(sku_records) :
                        sku_records[i].id # sku_records'[Len(sku_records')].id
                /\ sku_records'[Len(sku_records')].sku = response'.sku
                /\ sku_records'[Len(sku_records')].user_id = response'.user
           /\ ~GenerationSucceeded => sku_records' = sku_records ]_vars

\* two generations of one user with the same code, stored as two records
C6_Witness ==
    /\ Len(sku_records) = 2
    /\ sku_records[1].sku = sku_records[2].sku
    /\ sku_records[1].user_id = sku_records[2].user_id
    /\ sku_records[1].product_name = sku_records[2].product_name
    /\ sku_records[1].id # sku_records[2].id
    /\ response.flash = "SKU generated"

OwnedBy(rows, uid) == \A k \in 1..Len(rows) : rows[k].user_id = uid

\* C7: the SKU records and the product types, collections and colors a page
\* shows to a user are rows of that user only.
C7_PagesShowOwnRows ==
    response.status = "page" =>
        /\ OwnedBy(response.product_types, response.user)
        /\ OwnedBy(response.collections, response.user)
        /\ OwnedBy(response.colors, response.user)
        /\ OwnedBy(response.sku_records, response.user)

\* user 1 is shown a color of theirs while user 2 has a color too
C7_Witness ==
    /\ response.status = "page"
    /\ response.user = 1
    /\ Len(response.colors) = 1
    /\ Len(colors) = 2
    /\ \E k \in 1..2 : colors[k].user_id = 2

\* the id submitted for a field names no vocabulary row of the user: it is
\* absent or empty, is no integer, or is the id of no row or of a row of
\* another user
Unresolved(table, id_field, uid) ==
    \/ id_field.isNone
    \/ id_field.str = <<>>
    \/ int_of(id_field.str).raised # ""
    \/ ~\E k \in 1..Len(table) :
            table[k].id = int_of(id_field.str).value /\ table[k].user_id = uid

\* C8: a generation request with a product name and an id that names no
\* vocabulary row of the user succeeds and stores a record, in whose SKU
\* the two characters of that field are "__".
C8_UnresolvedIdStillSucceeds ==
    [][ \A uid \in Users, form \in NamedForms \cup EmptyIdForms :
            ( /\ generate_sku_post(uid, form)
              /\ \/ Unresolved(product_types, form.product_type, uid)
                 \/ Unresolved(collections, form.collection, uid)
                 \/ Unresolved(colors, form.color, uid) )
            => /\ GenerationSucceeded
               /\ Len(sku_records') = Len(sku_records) + 1
               /\ Unresolved(product_types, form.product_type, uid)
                    => SubSeq(response'.sku, 1, 2) = <<PAD, PAD>>
               /\ Unresolved(collections, form.collection, uid)
                    => SubSeq(response'.sku, 3, 4) = <<PAD, PAD>>
               /\ Unresolved(colors, form.color, uid)
                    => SubSeq(response'.sku, 8, 9) = <<PAD, PAD>> ]_vars

\* the part of C8 the code meets: the label of a field with such an id is
\* the empty string, whatever vocabulary other users have stored
C8_UnresolvedLabelIsEmpty ==
    \A uid \in Users, id_field \in IdFields \cup {Some(<<>>)} :
        /\ Unresolved(product_types, id_field, uid) => resolve_name(product_types, id_field, uid) = <<>>
        /\ Unresolved(collections, id_field, uid) => resolve_name(collections, id_field, uid) = <<>>
        /\ Unresolved(colors, id_field, uid) => resolve_name(colors, id_field, uid) = <<>>

\* the records of a user in the order of their creation
CreatedBy(uid) == SelectSeq(sku_records, LAMBDA r : r.user_id = uid)

\* the k-th most recently created record of a user
KthRecent(uid, k) == CreatedBy(uid)[Len(CreatedBy(uid)) - k + 1]

RecentOf(uid) == recent_sku_records(sku_records, uid)

\* C9: the recent records of a user are the min(10, number of records)
\* records the user created last, the last created first; the page of
\* /create-data shows this list; a generation by another user leaves it as
\* it was.
C9_RecentRecords ==
    /\ [](\A uid \in Users :
            /\ Len(RecentOf(uid)) = Min(RECENT_LIMIT, Len(CreatedBy(uid)))
            /\ \A k \in 1..Len(RecentOf(uid)) : RecentOf(uid)[k] = KthRecent(uid, k)
            /\ \A k \in 1..(Len(RecentOf(uid)) - 1) :
                    RecentOf(uid)[k].id > RecentOf(uid)[k + 1].id)
    /\ [](response.endpoint = "create_data" /\ response.method = "GET" =>
            /\ Len(response.sku_records) = Min(RECENT_LIMIT, Len(CreatedBy(response.user)))
            /\ \A k \in 1..Len(response.sku_records) :
                    response.sku_records[k] = KthRecent(response.user, k))
    /\ [][ GenerationSucceeded =>
            \A uid \in Users \ {response'.user} :
                recent_sku_records(sku_records', uid) = RecentOf(uid) ]_vars

\* user 1 has created 11 records, user 2 one among them, and user 1 is
\* shown the 10 last of theirs
C9_Witness ==
    /\ Len(CreatedBy(1)) = RECENT_LIMIT + 1
    /\ Len(sku_records) = RECENT_LIMIT + 2
    /\ sku_records[2].user_id = 2
    /\ response.endpoint = "create_data"
    /\ response.method = "GET"
    /\ response.user = 1
    /\ Len(response.sku_records) = RECENT_LIMIT
    /\ response.sku_records[RECENT_LIMIT] = sku_records[3]

Categories == {"product_type", "collection", "color"}

\* C10: a generation request whose product name is empty once trimmed adds
\* no row to any table and does not call build_sku; a vocabulary request
\* whose value is empty once trimmed, or whose category is none of
\* product_type, collection and color, adds no row to any table.  Stated by
\* contraposition: a step that changes a table or calls build_sku is the
\* step of no such request.
C10_RejectedRequestsChangeNothing ==
    [][ /\ (Tables' # Tables \/ response'.built) =>
            \A uid \in Users, form \in OtherForms :
                ~(strip(get_or_empty(form.product_name)) = <<>> /\ generate_sku_post(uid, form))
        /\ Tables' # Tables =>
            \A uid \in Users, what \in WhatValues, value \in ValueFields :
                ~( /\ strip(get_or_empty(value)) = <<>> \/ what \notin Categories
                   /\ create_data_post(uid, what, value) ) ]_vars

\* a generation request was turned down for its product name, with rows stored
C10_Witness ==
    /\ response.endpoint = "generate_sku"
    /\ response.flash = "Please enter Product Name (type it)."
    /\ ~response.built
    /\ Len(sku_records) = 1
    /\ sku_records[1].user_id = response.user

====
